---- MODULE Spec2Model ----
(***************************************************************************)
(* Model of pyscenic/rnkdb.py: RankingDatabase, a read-only loader of      *)
(* whole-genome ranking matrices kept in an SQLite file.                   *)
(*                                                                         *)
(* Strings are sequences of character codes, blobs are sequences of bytes. *)
(* The table "rankings" is a sequence of rows in rowid (insertion) order.  *)
(***************************************************************************)
EXTENDS Integers, Sequences, FiniteSets

VARIABLES
    store,        \* rows of table rankings in rowid order: [geneID, ranking]
    features,     \* self._features
    gene_count,   \* self._gene_count, a two-limb count <<hi, lo>>
    dtype,        \* self._dtype: "int16", "int32" ("unset" before it is derived)
    genes_memo,   \* cache of the memoized property genes: <<>> or <<tuple>>
    open,         \* sqlite3 connections opened by finished calls and not closed yet
    last          \* what the most recent call did and returned

vars == <<store, features, gene_count, dtype, genes_memo, open, last>>

-----------------------------------------------------------------------------
(* Bounds of the model *)

MaxRows == 2          \* rows in table rankings
MaxFeatures == 2      \* rows in table motifs
MaxOpen == 2          \* unclosed connections the model keeps track of
MaxIdLen == 2         \* length of the identifiers of the quoting specification
Window == 20          \* gene counts tried on each side of a boundary

(* Program constants *)

Quote == 39           \* "'"
Comma == 44           \* ","
Limb == 65536         \* a count n is held as <<hi, lo>>, n = hi * Limb + lo
TwoPow15 == 32768     \* 2**15

-----------------------------------------------------------------------------
(* Counts. The row count is a 64-bit integer; the values of interest pass  *)
(* 2^31, so a count is held in two 16-bit limbs.                           *)

CountOf(k) == <<k \div Limb, k % Limb>>

CountLeq(a, b) == a[1] < b[1] \/ (a[1] = b[1] /\ a[2] <= b[2])

CountPred(a) == IF a[2] > 0 THEN <<a[1], a[2] - 1>> ELSE <<a[1] - 1, Limb - 1>>

IsZero(a) == a = <<0, 0>>

\* Largest value of a signed integer type.
MaxValue(t) == IF t = "int16" THEN <<0, TwoPow15 - 1>> ELSE <<TwoPow15 - 1, Limb - 1>>

\* 2^31, the number of non-negative values of int32.
TwoPow31 == <<TwoPow15, 0>>

derive_dtype_strict(n) == IF ~CountLeq(CountOf(TwoPow15), n) THEN "int16" ELSE "int32"

derive_dtype(n) == IF CountLeq(n, CountOf(TwoPow15)) THEN "int16" ELSE "int32"

itemsize(t) == IF t = "int16" THEN 2 ELSE 4

-----------------------------------------------------------------------------
(* Strings *)

\* Byte-wise comparison of two strings (SQLite's BINARY collation).
LexLess(a, b) ==
    \E i \in 1..(Len(a) + 1) :
        /\ \A j \in 1..(i - 1) : j <= Len(b) /\ a[j] = b[j]
        /\ i <= Len(b)
        /\ (i > Len(a) \/ a[i] < b[i])

RECURSIVE replace_quotes(_)
\* value.replace("'", "''")
replace_quotes(value) ==
    IF value = <<>> THEN <<>>
    ELSE (IF Head(value) = Quote THEN <<Quote, Quote>> ELSE <<Head(value)>>)
         \o replace_quotes(Tail(value))

quote_plain(value) == <<Quote>> \o value \o <<Quote>>

quote(value) == <<Quote>> \o replace_quotes(value) \o <<Quote>>

RECURSIVE join(_)
\* ','.join(strings)
join(strs) ==
    IF strs = <<>> THEN <<>>
    ELSE IF Len(strs) = 1 THEN strs[1]
    ELSE strs[1] \o <<Comma>> \o join(Tail(strs))

quoted_csv(values) == join([i \in 1..Len(values) |-> quote(values[i])])

RECURSIVE SortIds(_)
SortIds(S) ==
    IF S = {} THEN <<>>
    ELSE LET m == CHOOSE x \in S : \A y \in S \ {x} : LexLess(x, y)
         IN  <<m>> \o SortIds(S \ {m})

\* gs.genes: the identifiers of the signature as a tuple.
gs_genes(gs) == SortIds(gs)

\* bool(gs) of "assert gs": a signature is true when it holds a gene.
gs_truthy_always(gs) == TRUE

gs_truthy(gs) == Cardinality(gs) > 0

-----------------------------------------------------------------------------
(* The SQL queries *)

Range(s) == {s[i] : i \in 1..Len(s)}

RECURSIVE SortRows(_)
SortRows(S) ==
    IF S = {} THEN <<>>
    ELSE LET m == CHOOSE r \in S : \A o \in S \ {r} : LexLess(r.geneID, o.geneID)
         IN  <<m>> \o SortRows(S \ {m})

\* ORDER BY geneID
OrderByGeneID(rows) == SortRows(Range(rows))

RECURSIVE Select(_, _)
\* The rows of a sequence whose geneID is in S, in the order of the sequence.
Select(rows, S) ==
    IF rows = <<>> THEN <<>>
    ELSE (IF Head(rows).geneID \in S THEN <<Head(rows)>> ELSE <<>>)
         \o Select(Tail(rows), S)

\* GENE_ID_COUNT_QUERY
CountRows(rows) == CountOf(Len(rows))

AllGeneIdsByRowid(rows) == [i \in 1..Len(rows) |-> rows[i].geneID]

\* ALL_GENE_IDS_QUERY
AllGeneIds(rows) ==
    LET s == OrderByGeneID(rows) IN [i \in 1..Len(s) |-> s[i].geneID]

\* ALL_RANKINGS_QUERY
AllRankings(rows) == OrderByGeneID(rows)

RECURSIVE ParseList(_, _, _, _)
\* The expression list of "geneID IN (...)" as SQLite reads it: string
\* literals between single quotes, '' inside a literal standing for one
\* quote, separated by commas. mode is "expect" (a literal must start),
\* "in" (inside a literal) or "after" (a literal has ended).
ParseList(s, mode, cur, acc) ==
    IF s = <<>> THEN
        IF mode = "after" THEN [ok |-> TRUE, lits |-> acc]
        ELSE [ok |-> FALSE, lits |-> {}]
    ELSE IF mode = "expect" THEN
        IF Head(s) = Quote THEN ParseList(Tail(s), "in", <<>>, acc)
        ELSE [ok |-> FALSE, lits |-> {}]
    ELSE IF mode = "in" THEN
        IF Head(s) # Quote THEN ParseList(Tail(s), "in", Append(cur, Head(s)), acc)
        ELSE IF Len(s) >= 2 /\ s[2] = Quote
             THEN ParseList(Tail(Tail(s)), "in", Append(cur, Quote), acc)
             ELSE ParseList(Tail(s), "after", <<>>, acc \cup {cur})
    ELSE
        IF Head(s) = Comma THEN ParseList(Tail(s), "expect", <<>>, acc)
        ELSE [ok |-> FALSE, lits |-> {}]

\* An empty list, "IN ()", is accepted by SQLite and matches nothing.
ParseInList(s) ==
    IF s = <<>> THEN [ok |-> TRUE, lits |-> {}] ELSE ParseList(s, "expect", <<>>, {})

RankingsUnordered(rows, csv) ==
    LET p == ParseInList(csv)
    IN  [ok |-> p.ok, rows |-> IF p.ok THEN Select(rows, p.lits) ELSE <<>>]

\* RANKINGS_QUERY.format(csv)
Rankings(rows, csv) ==
    LET p == ParseInList(csv)
    IN  [ok |-> p.ok, rows |-> IF p.ok THEN Select(OrderByGeneID(rows), p.lits) ELSE <<>>]

-----------------------------------------------------------------------------
(* Blobs and numpy *)

\* A byte of a signed little-endian integer: the top byte carries the sign.
SignedByte(b) == IF b >= 128 THEN b - 256 ELSE b

RECURSIVE DecodeLE(_)
\* One little-endian two's-complement integer from its bytes.
DecodeLE(bytes) ==
    IF Len(bytes) = 1 THEN SignedByte(bytes[1])
    ELSE bytes[1] + 256 * DecodeLE(Tail(bytes))

\* np.frombuffer(ranking, dtype): a buffer whose size is no multiple of the
\* element size raises ValueError.
frombuffer(ranking, t) ==
    IF Len(ranking) % itemsize(t) # 0
    THEN [ok |-> FALSE, arr |-> <<>>]
    ELSE [ok |-> TRUE,
          arr |-> [i \in 1..(Len(ranking) \div itemsize(t)) |->
                     DecodeLE(SubSeq(ranking, (i - 1) * itemsize(t) + 1, i * itemsize(t)))]]

\* rankings[:, idx] = arr, for a column of n cells: numpy broadcasts an array
\* of one element over the column and raises ValueError for any other length
\* that differs from n.
can_assign(n, arr) == Len(arr) = n \/ Len(arr) = 1

assign_column(n, arr) == [f \in 1..n |-> IF Len(arr) = n THEN arr[f] ELSE arr[1]]

\* The loop body of load_full and load succeeds on the row at position idx
\* (1-based) of a matrix of cols columns.
row_ok(row, n, t, idx, cols) ==
    /\ frombuffer(row.ranking, t).ok
    /\ idx <= cols
    /\ can_assign(n, frombuffer(row.ranking, t).arr)

\* The matrix after the loop: np.empty leaves every cell that the loop does
\* not write with whatever the memory held (mem).
fill(rows, n, t, cols, mem) ==
    [g \in 1..cols |->
        IF g <= Len(rows) THEN assign_column(n, frombuffer(rows[g].ranking, t).arr)
        ELSE [f \in 1..n |-> mem]]

\* The exception the loop raises, "ok" when it raises none.
loop_status(rows, n, t, cols) ==
    IF \A g \in 1..Len(rows) : row_ok(rows[g], n, t, g, cols) THEN "ok"
    ELSE LET g == CHOOSE i \in 1..Len(rows) :
                     /\ ~row_ok(rows[i], n, t, i, cols)
                     /\ \A j \in 1..(i - 1) : row_ok(rows[j], n, t, j, cols)
         IN  IF g > cols /\ frombuffer(rows[g].ranking, t).ok
             THEN "IndexError" ELSE "ValueError"

-----------------------------------------------------------------------------
(* The calls. A result records what the call returned (status "ok") or the *)
(* exception it raised, and what it did on the way: whether the matrix was *)
(* allocated, how many connections it opened, how many queries it ran.     *)

NoCall == [op |-> "none", gs |-> {}, status |-> "ok", features |-> <<>>,
           genes |-> <<>>, rankings |-> <<>>,
           allocated |-> FALSE, connects |-> 0, queries |-> 0]

Raised(op, gs, status, allocated, connects, queries) ==
    [op |-> op, gs |-> gs, status |-> status, features |-> <<>>, genes |-> <<>>,
     rankings |-> <<>>, allocated |-> allocated, connects |-> connects,
     queries |-> queries]

\* The property genes: the cached tuple, or the tuple the query returns.
genes_value(memo, rows) == IF memo # <<>> THEN memo[1] ELSE AllGeneIds(rows)

\* Connections and queries of one evaluation of self.genes.
genes_cost(memo) == IF memo # <<>> THEN 0 ELSE 1

full_cols_plus_one(gl) == Len(gl) + 1

\* The number of columns load_full allocates: len(self.genes).
full_cols(gl) == Len(gl)

\* The number of columns load allocates: len(gs).
load_cols(gs, rows) == Cardinality(gs)

load_full_result(rows, feats, t, memo, mem) ==
    LET gl     == genes_value(memo, rows)
        cols   == full_cols(gl)
        scan   == AllRankings(rows)
        status == loop_status(scan, Len(feats), t, cols)
        conns  == genes_cost(memo) + 1
    IN  IF status # "ok" THEN Raised("load_full", {}, status, TRUE, conns, conns)
        ELSE [op |-> "load_full", gs |-> {}, status |-> "ok",
              features |-> feats, genes |-> gl,
              rankings |-> fill(scan, Len(feats), t, cols, mem),
              allocated |-> TRUE, connects |-> conns, queries |-> conns]

load_result(rows, feats, t, gs, mem) ==
    IF ~gs_truthy(gs) THEN Raised("load", gs, "AssertionError", FALSE, 0, 0)
    ELSE LET q      == Rankings(rows, quoted_csv(gs_genes(gs)))
             cols   == load_cols(gs, q.rows)
             status == IF q.ok THEN loop_status(q.rows, Len(feats), t, cols)
                       ELSE "OperationalError"
         IN  IF status # "ok" THEN Raised("load", gs, status, TRUE, 1, 1)
             ELSE [op |-> "load", gs |-> gs, status |-> "ok",
                   features |-> feats,
                   genes |-> [i \in 1..Len(q.rows) |-> q.rows[i].geneID],
                   rankings |-> fill(q.rows, Len(feats), t, cols, mem),
                   allocated |-> TRUE, connects |-> 1, queries |-> 1]

genes_result(rows, memo) ==
    [op |-> "genes", gs |-> {}, status |-> "ok", features |-> <<>>,
     genes |-> genes_value(memo, rows), rankings |-> <<>>,
     allocated |-> FALSE, connects |-> genes_cost(memo), queries |-> genes_cost(memo)]

\* "with sqlite3.connect(...) as db" commits or rolls back when the block is
\* left and does not close the connection: it is closed when the connection
\* object is reclaimed. A reference-counting interpreter (prompt) reclaims it
\* as the frame of a call that returns is torn down; a raised exception keeps
\* the frame, and with it the connection, alive through its traceback.
left_open(r, prompt) ==
    IF r.connects = 0 THEN 0
    ELSE IF prompt THEN (IF r.status = "ok" THEN 0 ELSE 1)
    ELSE r.connects

-----------------------------------------------------------------------------
(* The databases and signatures the model tries *)

\* Gene identifiers of the databases of Spec: "b", "a" and "a'".
GeneIds == {<<98>>, <<97>>, <<97, Quote>>}

\* Characters of the identifiers of SpecQuote: "'", "," and "a".
Alphabet == {Quote, Comma, 97}

QuoteIds == UNION {[1..k -> Alphabet] : k \in 0..MaxIdLen}

\* What np.empty may leave in a cell.
GarbageVals == {0, -1}

\* "f1", "f2", ...: the motifs in idx order.
FeatureNames(n) == [i \in 1..n |-> <<102, 48 + i>>]

RECURSIVE EncodeLE(_, _)
\* The k bytes of v, little-endian two's complement.
EncodeLE(v, k) == IF k = 0 THEN <<>> ELSE <<v % 256>> \o EncodeLE(v \div 256, k - 1)

RECURSIVE Encode(_, _)
Encode(vals, t) ==
    IF vals = <<>> THEN <<>> ELSE EncodeLE(Head(vals), itemsize(t)) \o Encode(Tail(vals), t)

\* The rank of gene id for the f-th feature in a well-formed blob: a value
\* of its own for every gene of GeneIds, negative or wider than a byte.
RankOf(id, f) == (IF id = <<>> THEN 0 ELSE (id[1] - 97) * 300) + (Len(id) - 1) * 1000 + f - 2

\* The ways a row's blob is formed: the n ranks of the gene ("ok"), one rank,
\* no rank, n + 1 ranks, or the n ranks followed by a stray byte.
Kinds == {"ok", "one", "none", "long", "odd"}

Blob(id, n, t, kind) ==
    IF kind = "ok" THEN Encode([f \in 1..n |-> RankOf(id, f)], t)
    ELSE IF kind = "one" THEN Encode(<<RankOf(id, 1)>>, t)
    ELSE IF kind = "none" THEN <<>>
    ELSE IF kind = "long" THEN Encode([f \in 1..(n + 1) |-> RankOf(id, f)], t)
    ELSE Encode([f \in 1..n |-> RankOf(id, f)], t) \o <<7>>

\* Sequences of at most maxrows distinct identifiers: the rowid order.
IdSeqs(ids, maxrows) ==
    UNION {{p \in [1..k -> ids] : \A i, j \in 1..k : p[i] = p[j] => i = j} : k \in 0..maxrows}

\* Tables of rows with distinct identifiers, all blobs well formed except
\* the blob of row bad (0: none), which is of the given kind.
Stores(ids, n, maxrows) ==
    {[i \in 1..Len(p) |->
         [geneID |-> p[i],
          ranking |-> Blob(p[i], n, derive_dtype(CountOf(Len(p))),
                           IF i = bk[1] THEN bk[2] ELSE "ok")]]
     : p \in IdSeqs(ids, maxrows), bk \in (0..maxrows) \X Kinds}

\* The signatures of one or two identifiers drawn from S.
OneOrTwo(S) == {{a, b} : a \in S, b \in S}

-----------------------------------------------------------------------------
(* The loader after RankingDatabase.__init__ and its operations *)

Constructed(rows, n) ==
    /\ store = rows
    /\ features = FeatureNames(n)
    /\ gene_count = CountRows(rows)
    /\ dtype = derive_dtype(CountRows(rows))
    /\ genes_memo = <<>>
    /\ open = 0

\* A database ranks the genes for at least one feature.
Init ==
    \E n \in 1..MaxFeatures : \E rows \in Stores(GeneIds, n, MaxRows) :
        Constructed(rows, n) /\ last = NoCall

Finish(r, prompt) ==
    /\ open + left_open(r, prompt) <= MaxOpen
    /\ last' = r
    /\ open' = open + left_open(r, prompt)
    /\ UNCHANGED <<store, features, gene_count, dtype>>

LoadFull(mem, prompt) ==
    /\ dtype # "unset"
    /\ Finish(load_full_result(store, features, dtype, genes_memo, mem), prompt)
    /\ genes_memo' = <<genes_value(genes_memo, store)>>

Load(gs, mem, prompt) ==
    /\ dtype # "unset"
    /\ Finish(load_result(store, features, dtype, gs, mem), prompt)
    /\ UNCHANGED genes_memo

Genes(prompt) ==
    /\ dtype # "unset"
    /\ Finish(genes_result(store, genes_memo), prompt)
    /\ genes_memo' = <<genes_value(genes_memo, store)>>

\* The interpreter reclaims a connection object no call refers to any more.
Collect ==
    /\ open > 0
    /\ open' = open - 1
    /\ UNCHANGED <<store, features, gene_count, dtype, genes_memo, last>>

Next ==
    \/ \E mem \in GarbageVals, prompt \in BOOLEAN : LoadFull(mem, prompt)
    \/ \E gs \in SUBSET GeneIds, mem \in GarbageVals, prompt \in BOOLEAN : Load(gs, mem, prompt)
    \/ \E prompt \in BOOLEAN : Genes(prompt)
    \/ Collect

Spec == Init /\ [][Next]_vars

-----------------------------------------------------------------------------
(* SpecQuote: one call of load on a database of at most one row whose     *)
(* identifier, like the requested ones, is any string over Alphabet, run   *)
(* by a reference-counting interpreter.                                    *)

\* The call load(gs) is about to be made.
Pending(gs) == [NoCall EXCEPT !.gs = gs]

InitQuote ==
    \E rows \in Stores(QuoteIds, 1, 1), gs \in OneOrTwo(QuoteIds) :
        /\ \A i \in 1..Len(rows) : rows[i].ranking = Blob(rows[i].geneID, 1, "int16", "ok")
        /\ Constructed(rows, 1) /\ last = Pending(gs)

NextQuote ==
    \E mem \in GarbageVals : last.op = "none" /\ Load(last.gs, mem, TRUE)

SpecQuote == InitQuote /\ [][NextQuote]_vars

-----------------------------------------------------------------------------
(* SpecDtype: the derivation of the rank width from the gene count read at *)
(* construction, for counts around 0, 2^15 and 2^31.                       *)

GeneCounts ==
    {<<0, k>> : k \in 0..Window}
    \cup {<<0, k>> : k \in (TwoPow15 - Window)..(TwoPow15 + Window)}
    \cup {<<TwoPow15 - 1, k>> : k \in (Limb - Window)..(Limb - 1)}
    \cup {<<TwoPow15, k>> : k \in 0..Window}

InitDtype ==
    /\ store = <<>>
    /\ features = <<>>
    /\ gene_count \in GeneCounts
    /\ dtype = "unset"
    /\ genes_memo = <<>>
    /\ open = 0
    /\ last = NoCall

\* self._dtype = derive_dtype(self._gene_count)
DeriveDtype ==
    /\ dtype = "unset"
    /\ dtype' = derive_dtype(gene_count)
    /\ UNCHANGED <<store, features, gene_count, genes_memo, open, last>>

NextDtype == DeriveDtype

SpecDtype == InitDtype /\ [][NextDtype]_vars

-----------------------------------------------------------------------------
(* SpecTwice: load_full called again and again on the same loader.         *)

NextTwice ==
    \/ \E mem \in GarbageVals, prompt \in BOOLEAN : LoadFull(mem, prompt)
    \/ Collect

SpecTwice == Init /\ [][NextTwice]_vars

-----------------------------------------------------------------------------
(* Properties *)

StoredIds == {store[i].geneID : i \in 1..Len(store)}

Ascending(ids) == \A i \in 1..(Len(ids) - 1) : LexLess(ids[i], ids[i + 1])

Returned(op) == last.op = op /\ last.status = "ok"

\* The blob of a row holds exactly one rank of the loader's width per feature.
WellFormed(row) == Len(row.ranking) = Len(features) * itemsize(dtype)

C2_LoadFullColumnsAreDecodedBlobs ==
    Returned("load_full") =>
        /\ Len(last.rankings) = Len(store)
        /\ Len(last.genes) = Len(store)
        /\ \A g \in 1..Len(last.rankings) :
              /\ Len(last.rankings[g]) = Len(features)
              /\ \E i \in 1..Len(store) :
                    /\ store[i].geneID = last.genes[g]
                    /\ frombuffer(store[i].ranking, dtype).ok
                    /\ last.rankings[g] = frombuffer(store[i].ranking, dtype).arr

\* C3: the genes load(gs) returns are in ascending order of identifier, all
\* of them requested and stored, and no more than were requested; requested
\* identifiers the table lacks raise nothing: the call returns whenever the
\* blobs of the requested rows that exist are well formed.
C3_LoadGenesSortedSubset ==
    (last.op = "load" /\ last.gs # {}) =>
        /\ last.status = "ok" =>
              /\ Ascending(last.genes)
              /\ Range(last.genes) = last.gs \cap StoredIds
              /\ Len(last.genes) <= Cardinality(last.gs)
        /\ (\A i \in 1..Len(store) : store[i].geneID \in last.gs => WellFormed(store[i]))
              => last.status = "ok"

C3_Witness ==
    /\ Returned("load")
    /\ last.gs \ StoredIds # {}
    /\ Len(last.genes) = 2
    /\ LexLess(store[2].geneID, store[1].geneID)

\* C4: the matrix load(gs) returns has as many columns as the returned gene
\* vector has entries.
C4_LoadColumnsMatchGenes ==
    Returned("load") => Len(last.rankings) = Len(last.genes)

\* C5: the query load builds is well formed and returns the stored rows whose
\* identifier is one of the requested identifiers, and no other row,
\* whatever quotes and commas the identifiers hold.
C5_QuotedIdentifiersRoundTrip ==
    last.op = "load" =>
        /\ last.status = "ok"
        /\ Range(last.genes) = last.gs \cap StoredIds

C5_Witness ==
    /\ Returned("load")
    /\ Cardinality(last.gs) = 2
    /\ \E i \in 1..Len(last.genes) : Quote \in Range(last.genes[i]) /\ Comma \in Range(last.genes[i])

\* C6: load_full and load raise when a row they read has a blob whose length
\* is no multiple of the rank width or that holds another number of ranks
\* than there are features.
C6_MalformedBlobRaises ==
    (/\ last.op \in {"load_full", "load"}
     /\ \E i \in 1..Len(store) :
           /\ last.op = "load" => store[i].geneID \in last.gs
           /\ ~WellFormed(store[i]))
    => last.status # "ok"

\* C7: load of an empty signature raises before it allocates the matrix,
\* opens a connection or runs a query.
C7_EmptySignatureRejected ==
    (last.op = "load" /\ last.gs = {}) =>
        /\ last.status = "AssertionError"
        /\ ~last.allocated
        /\ last.connects = 0
        /\ last.queries = 0

C7_Witness == last.op = "load" /\ last.gs = {} /\ last.status = "AssertionError"

\* C8: a call of load_full that follows a call of load_full on the same loader
\* ends as the first did and returns the same features, genes and matrix.
C8_LoadFullIdempotent ==
    [][(last.op = "load_full" /\ last'.op = "load_full") =>
          /\ last'.status = last.status
          /\ last'.features = last.features
          /\ last'.genes = last.genes
          /\ last'.rankings = last.rankings]_vars

\* A call of load_full that found the gene list cached: in SpecTwice, cached
\* by an earlier call of load_full.
C8_Witness ==
    /\ Returned("load_full")
    /\ last.connects = 1
    /\ Len(last.genes) = 2
    /\ Len(features) = 2

\* C9, as claimed: the genes of load_full and of the property genes are in
\* the order of the table's rowid.
C9_GenesInRowidOrder ==
    (Returned("load_full") \/ Returned("genes")) =>
        last.genes = [i \in 1..Len(store) |-> store[i].geneID]

\* C9, amended: the genes of load_full and of the property genes are all the
\* stored identifiers in ascending order of identifier, the order of load.
C9_GenesInIdentifierOrder ==
    (Returned("load_full") \/ Returned("genes")) =>
        /\ Len(last.genes) = Len(store)
        /\ Range(last.genes) = StoredIds
        /\ Ascending(last.genes)

C9_Witness ==
    /\ Returned("load_full")
    /\ Len(store) = 2
    /\ LexLess(store[2].geneID, store[1].geneID)

\* C10: between calls, no connection that a finished call of load_full, load
\* or genes opened is still open.
C10_NoConnectionLeftOpen == open = 0

====
